---- MODULE Spec2Model ----
(***************************************************************************)
(* Model of the Ilocano constitution assistant: the Streamlit chat script  *)
(* (app.py) and the three-stage query pipeline RAGSystem (rag_system.py).  *)
(*                                                                         *)
(* Text is a sequence of characters.  User questions, provider texts and   *)
(* exception messages are spelled character by character; a long literal   *)
(* stretch of a prompt template is abbreviated to one element written in   *)
(* square brackets, its leading and trailing whitespace kept as separate   *)
(* elements so that strip() has something to act on.                       *)
(***************************************************************************)
EXTENDS Naturals, Sequences, FiniteSets

\* ---------------------------------------------------------------- bounds
MaxTurns == 1

MaxFiles == 2

\* -------------------------------------------------------- text primitives
Whitespace == {" ", "\n", "\t"}

UpperAlphabet ==
  <<"A","B","C","D","E","F","G","H","I","J","K","L","M",
    "N","O","P","Q","R","S","T","U","V","W","X","Y","Z">>

LowerAlphabet ==
  <<"a","b","c","d","e","f","g","h","i","j","k","l","m",
    "n","o","p","q","r","s","t","u","v","w","x","y","z">>

LowerChar(c) ==
  IF \E i \in 1..Len(UpperAlphabet) : UpperAlphabet[i] = c
  THEN LowerAlphabet[CHOOSE i \in 1..Len(UpperAlphabet) : UpperAlphabet[i] = c]
  ELSE c

\* str.lower()
lower(s) == [i \in 1..Len(s) |-> LowerChar(s[i])]

\* the Python test: needle in hay
Contains(hay, needle) ==
  \E i \in 1..(Len(hay) + 1) :
    /\ i + Len(needle) - 1 <= Len(hay)
    /\ SubSeq(hay, i, i + Len(needle) - 1) = needle

\* str.strip()
strip(s) ==
  IF \A i \in 1..Len(s) : s[i] \in Whitespace
  THEN <<>>
  ELSE LET first == CHOOSE i \in 1..Len(s) :
                      /\ s[i] \notin Whitespace
                      /\ \A j \in 1..(i - 1) : s[j] \in Whitespace
           last  == CHOOSE i \in 1..Len(s) :
                      /\ s[i] \notin Whitespace
                      /\ \A j \in (i + 1)..Len(s) : s[j] \in Whitespace
       IN SubSeq(s, first, last)

RECURSIVE join(_, _)
\* sep.join(parts)
join(sep, parts) ==
  IF parts = <<>> THEN <<>>
  ELSE IF Len(parts) = 1 THEN parts[1]
  ELSE parts[1] \o sep \o join(sep, Tail(parts))

\* ------------------------------------------------------- fixed strings
VectorStoreNotLoaded ==
  <<"[Vector store not loaded. Please run python process_documents.py first.]">>

NoDocumentsAvailable ==
  <<"[No documents available. Please run process_documents.py first.]">>

ErrorRetrieving == <<"[Error retrieving documents.]">>

ErrorGeneratingPrefix == <<"[Error generating response:]", " ">>

ErrorProcessingPrefix == <<"[Error processing query:]", " ">>

InitErrorBanner == <<"[Failed to initialize RAG system. Please check your setup.]">>

MissingKeyBanner ==
  <<"[Please set your OPENAI_API_KEY environment variable to use this application.]">>

WelcomeContent ==
  <<"[Hello gayyemko! Anya ngay ti maitulong ko kenyam?]", "\n", "\n", " ">>

\* retrieval setting search_kwargs k
TOP_K == 5

\* ---------------------------------------------------------------- prompts
translation_prompt(query, language) ==
  <<"\n", " ", "[You are an expert translator ...]", "\n", " ", "\n", " ",
    "[Translate the following query into English if it's in Ilocano ...]",
    "\n", " ", "Query:", " ">> \o query \o
  <<"\n", " ", "Target Language:", " ">> \o language \o
  <<"\n", " ", "\n", " ", "[If the query is in Ilocano, provide ...]",
    "\n", " ", "\n", " ", "Translation:", "\n", " ">>

\* variant: the context slot is filled with the question
rag_prompt_no_context(context, q) ==
  <<"\n", " ", "[Use the following constitutional documents as context ...]",
    "\n", " ">> \o q \o
  <<"\n", " ", "\n", " ", "Question:", " ">> \o q \o <<"\n", " ">>

rag_prompt(context, q) ==
  <<"\n", " ", "[You are an expert on Philippine Constitutional Law ...]",
    "\n", " ", "\n", " ",
    "[Use the following constitutional documents as context ...]",
    "\n", " ">> \o context \o
  <<"\n", " ", "\n", " ", "Question:", " ">> \o q \o
  <<"\n", " ", "\n", " ", "[Instructions: 1. ... 9.]", "\n", " ", "\n", " ",
    "**Ilocano:**", "\n", " ", "[Your response in Ilocano here]",
    "\n", " ", "\n", " ", "**English Translation:**", "\n", " ",
    "[Complete English translation ...]", "\n", " ", "\n", " ",
    "[Provide ONE clear, concise answer:]", "\n", " ">>

English == <<"E","n","g","l","i","s","h">>

\* ------------------------------------------------------- marker tokens
ilocano_indicators ==
  { <<"t","i">>, <<"i","t","i">>, <<"d","a","g","i","t","i">>,
    <<"k","a","d","a","g","i","t","i">>, <<"k","e","n">>,
    <<"w","e","n","n","o">>, <<"a","n","i","a">>,
    <<"s","a","d","i","n","o">>, <<"k","a","s","a","n","o">>,
    <<"a","p","a","y">>, <<"k","a","y","a","t">>,
    <<"m","a","b","a","l","i","n">>, <<"s","a","a","n">>,
    <<"a","d","d","a">>, <<"a","w","a","n">>,
    <<"a","g","s","a","l","u","d","s","o","d">>,
    <<"m","a","i","p","a","p","a","n">>,
    <<"k","o","n","s","t","i","t","u","s","i","o","n">> }

\* variant: the whole question must be a marker
is_ilocano_exact(query) == lower(query) \in ilocano_indicators

\* variant: the question is not lowercased
is_ilocano_cased(query) ==
  \E indicator \in ilocano_indicators : Contains(query, indicator)

\* any(indicator in query.lower() for indicator in ilocano_indicators)
is_ilocano(query) ==
  \E indicator \in ilocano_indicators : Contains(lower(query), indicator)

\* ------------------------------------------------- inputs and providers
Q_empty == <<>>

Q_ania == <<"a","n","i","a">>

Q_Ania_caps == <<"A","N","I","A","?">>

Q_citizen ==
  <<"W","h","a","t"," ","a","r","e"," ","c","i","t","i","z","e","n"," ",
    "r","i","g","h","t","s","?">>

Q_who == <<"W","h","o"," ","m","a","y"," ","v","o","t","e","?">>

\* questions a caller may pass to query()
Questions == {Q_empty, Q_ania, Q_Ania_caps, Q_citizen, Q_who}

\* st.chat_input never submits an empty prompt (app.py: if prompt := ...)
ChatPrompts == {Q_ania, Q_who}

ProviderError == <<"t","i","m","e","o","u","t">>

GraphError == <<"r","e","c","u","r","s","i","o","n">>

ProviderText == <<" ","o","k","\n">>

\* what one call of the Language Model Provider may do: raise, answer with
\* some text (possibly empty), or echo its prompt
LLMOutcomes ==
  { [kind |-> "raise", text |-> ProviderError],
    [kind |-> "echo",  text |-> <<>>],
    [kind |-> "text",  text |-> <<>>],
    [kind |-> "text",  text |-> ProviderText] }

\* what one call of the retriever (embedding + index search) may do
RetrieverOutcomes ==
  { [kind |-> "raise", text |-> ProviderError],
    [kind |-> "ok",    text |-> <<>>] }

Chunk_T == [page_content |-> <<"S","e","c","1">>, filename |-> "a.txt"]

Chunk_U == [page_content |-> <<"S","e","c","2">>, filename |-> "b.pdf"]

\* contents of a persisted index, in similarity order
IndexChoices ==
  { <<Chunk_T>>,
    <<Chunk_U, Chunk_T, Chunk_U, Chunk_T, Chunk_U, Chunk_T>> }

\* the "vectorstore" directory: absent, unreadable, or a saved index
DiskChoices ==
  { [kind |-> "missing", index |-> <<>>],
    [kind |-> "corrupt", index |-> <<>>] }
  \cup { [kind |-> "ok", index |-> ix] : ix \in IndexChoices }

NoExc == [raised |-> FALSE, msg |-> <<>>]

Exc(m) == [raised |-> TRUE, msg |-> m]

\* chain.invoke(...) of prompt | llm: the message returned, or the exception
llm_invoke(prompt, o) ==
  IF o.kind = "raise" THEN [exc |-> Exc(o.text), content |-> <<>>]
  ELSE IF o.kind = "echo" THEN [exc |-> NoExc, content |-> prompt]
  ELSE [exc |-> NoExc, content |-> o.text]

Min(a, b) == IF a <= b THEN a ELSE b

\* retriever.invoke(q): the k most similar documents, or the exception
retriever_invoke(ret, q, o) ==
  IF o.kind = "raise" THEN [exc |-> Exc(o.text), docs |-> <<>>]
  ELSE [exc |-> NoExc, docs |-> SubSeq(ret.index, 1, Min(ret.k, Len(ret.index)))]

\* --------------------------------------------------------------- RAGSystem
NoRetriever == [loaded |-> FALSE, index |-> <<>>, k |-> 0]

\* RAGSystem.load_vectorstore: the retriever left on self
load_vectorstore(disk) ==
  IF disk.kind = "ok"
  THEN [loaded |-> TRUE, index |-> disk.index, k |-> TOP_K]
  ELSE NoRetriever

EmptyState ==
  [query |-> <<>>, translated_query |-> <<>>, context |-> <<>>,
   answer |-> <<>>, source_docs |-> <<>>]

initial_state(q) == [EmptyState EXCEPT !.query = q]

\* one subscript of the state in a node's code: state[field] read or assigned
Rd(field) == [op |-> "read", field |-> field]

Wr(field) == [op |-> "write", field |-> field]

\* variant: the translation error is not caught
translate_fallback_reraise(st, e) == [state |-> st, exc |-> e]

\* translate_node's except branch
translate_fallback(st, e) ==
  [state |-> [st EXCEPT !.translated_query = st.query], exc |-> NoExc]

\* translate_node: new state, exception leaving the node, provider calls made
translate_node(st, o) ==
  IF is_ilocano(st.query)
  THEN LET r == llm_invoke(translation_prompt(st.query, English), o)
           out == IF r.exc.raised
                  THEN translate_fallback(st, r.exc)
                  ELSE [state |-> [st EXCEPT !.translated_query = strip(r.content)],
                        exc |-> NoExc]
       IN [state |-> out.state, exc |-> out.exc, invoked |-> 1,
           failed |-> r.exc.raised,
           acc |-> <<Rd("query")>> \o
                   (IF out.exc.raised THEN <<>>
                    ELSE IF r.exc.raised THEN <<Wr("translated_query")>>
                    ELSE <<Wr("translated_query"), Rd("translated_query")>>)]
  ELSE [state |-> [st EXCEPT !.translated_query = st.query], exc |-> NoExc,
        invoked |-> 0, failed |-> FALSE,
        acc |-> <<Rd("query"), Wr("translated_query")>>]

\* variant: the retrieval error is not caught
retrieve_fallback_reraise(st, e) == [state |-> st, exc |-> e]

\* retrieve_node's except branch
retrieve_fallback(st, e) ==
  [state |-> [st EXCEPT !.context = ErrorRetrieving, !.source_docs = <<>>],
   exc |-> NoExc]

page_contents(docs) == [i \in 1..Len(docs) |-> docs[i].page_content]

retrieve_node(st, ret, o) ==
  IF ret.loaded
  THEN LET r == retriever_invoke(ret, st.translated_query, o)
           out == IF r.exc.raised
                  THEN retrieve_fallback(st, r.exc)
                  ELSE [state |-> [st EXCEPT
                                     !.context = join(<<"\n", "\n">>, page_contents(r.docs)),
                                     !.source_docs = r.docs],
                        exc |-> NoExc]
       IN [state |-> out.state, exc |-> out.exc, invoked |-> 1,
           failed |-> r.exc.raised,
           acc |-> <<Rd("translated_query")>> \o
                   (IF out.exc.raised THEN <<>>
                    ELSE <<Wr("context"), Wr("source_docs")>>)]
  ELSE [state |-> [st EXCEPT !.context = NoDocumentsAvailable,
                             !.source_docs = <<>>],
        exc |-> NoExc, invoked |-> 0, failed |-> FALSE,
        acc |-> <<Wr("context"), Wr("source_docs")>>]

\* variant: the generation error is not caught
generate_fallback_reraise(st, e) == [state |-> st, exc |-> e]

\* variant: the error text is stored under the wrong key
generate_fallback_wrong_key(st, e) ==
  [state |-> [st EXCEPT !.context = ErrorGeneratingPrefix \o e.msg],
   exc |-> NoExc]

\* variant: the error text is dropped
generate_fallback_blank(st, e) ==
  [state |-> [st EXCEPT !.answer = <<>>], exc |-> NoExc]

\* generate_node's except branch
generate_fallback(st, e) ==
  [state |-> [st EXCEPT !.answer = ErrorGeneratingPrefix \o e.msg],
   exc |-> NoExc]

generate_node(st, o) ==
  LET r == llm_invoke(rag_prompt(st.context, st.query), o)
      out == IF r.exc.raised
             THEN generate_fallback(st, r.exc)
             ELSE [state |-> [st EXCEPT !.answer = r.content], exc |-> NoExc]
  IN [state |-> out.state, exc |-> out.exc, invoked |-> 1,
      failed |-> r.exc.raised,
      acc |-> <<Rd("context"), Rd("query")>> \o
              (IF out.exc.raised THEN <<>> ELSE <<Wr("answer")>>)]

\* variant: the guard is missing
short_circuit_never(ret) == FALSE

\* query's guard: if not self.retriever
short_circuit(ret) == ~ret.loaded

\* variant: the exception is passed on to the caller
query_reraise(e) == [outcome |-> "raised", result |-> e.msg]

\* query's except branch: what the caller gets for an exception e
query_except(e) ==
  [outcome |-> "returned", result |-> ErrorProcessingPrefix \o e.msg]

\* variant: translate is wired straight to generate
graph_edges_skip ==
  { <<"START", "translate">>, <<"translate", "generate">>,
    <<"generate", "END">> }

\* the edges added by setup_graph, START and END included
graph_edges ==
  { <<"START", "translate">>, <<"translate", "retrieve">>,
    <<"retrieve", "generate">>, <<"generate", "END">> }

\* the node the compiled graph runs after node n
next_node(n) == CHOOSE m \in {e[2] : e \in graph_edges} : <<n, m>> \in graph_edges

\* ------------------------------------------------------------------ state
VARIABLES
  OPENAI_API_KEY,   \* environment: is the credential set
  vectorstore_dir,  \* environment: the persisted index directory
  init_fails,       \* environment: does RAGSystem() raise
  app_pc,           \* the script: "start", "stopped" (st.stop) or "waiting" at chat_input
  error_banner,     \* the st.error banner shown, <<>> if none
  messages,         \* st.session_state.messages
  rag_system,       \* st.session_state.rag_system: "None" or "RAGSystem"
  retriever,        \* RAGSystem.retriever
  outcome,          \* of the current query call: "idle", "running", "returned", "raised"
  caller,           \* who called query: "none", "chat", "direct"
  question,         \* the argument of the current query call
  at,               \* last graph node completed: "none", "START", "translate", ...
  state,            \* the GraphState threaded through the graph
  result,           \* the string query returned (the exception message if it raised)
  trace,            \* history: the nodes run by the current call, in order
  calls,            \* history: provider invocations made by the current call
  chosen,           \* history: what each provider call of the current call did
  access_log,       \* history: the state fields the nodes of the current call read and assigned
  ing_pc,           \* process_documents.py: "idle", "main", "load", "split", "store", "exited"
  data_folder,      \* the "data" folder: does it exist, and its entries in iteration order
  ing_next,         \* load_documents: index of the next entry of the folder
  ing_documents,    \* load_documents: the documents loaded so far
  ing_chunks,       \* main: the chunks returned by split_documents
  exit_code,        \* exit status of the ingestion process once "exited"
  saves,            \* history: how many times save_local has run
  c_call,           \* concurrent callers of query: each call's position, argument and result
  c_state           \* the Request State dict each concurrent call created

vars ==
  <<OPENAI_API_KEY, vectorstore_dir, init_fails, app_pc, error_banner, messages,
    rag_system, retriever, outcome, caller, question, at, state, result, trace,
    calls, chosen, access_log, ing_pc, data_folder, ing_next, ing_documents, ing_chunks,
    exit_code, saves, c_call, c_state>>

concVars == <<c_call, c_state>>

\* the threads that call query on one pipeline at the same time
Calls == {1, 2}

IdleCall ==
  [outcome |-> "idle", question |-> <<>>, at |-> "none", result |-> <<>>,
   picks |-> <<>>]

\* no thread is inside query
ConcIdle ==
  /\ c_call = [c \in Calls |-> IdleCall]
  /\ c_state = [c \in Calls |-> EmptyState]

ingestVars ==
  <<ing_pc, data_folder, ing_next, ing_documents, ing_chunks, exit_code, saves>>

queryVars ==
  <<outcome, caller, question, at, state, result, trace, calls, chosen, access_log>>

\* process_documents.py is not running
IngestIdle ==
  /\ ing_pc = "idle"
  /\ data_folder = [exists |-> FALSE, files |-> <<>>]
  /\ ing_next = 1
  /\ ing_documents = <<>>
  /\ ing_chunks = <<>>
  /\ exit_code = 0
  /\ saves = 0

envVars == <<OPENAI_API_KEY, vectorstore_dir, init_fails>>

appVars == <<app_pc, error_banner, messages, rag_system, retriever>>

NoCalls == [translate |-> 0, retrieve |-> 0, generate |-> 0]

NoneChosen == [translate |-> "none", retrieve |-> "none", generate |-> "none"]

Init ==
  /\ OPENAI_API_KEY \in BOOLEAN
  /\ vectorstore_dir \in DiskChoices
  /\ init_fails \in BOOLEAN
  /\ app_pc = "start"
  /\ error_banner = <<>>
  /\ messages = <<>>
  /\ rag_system = "None"
  /\ retriever = NoRetriever
  /\ outcome = "idle"
  /\ caller = "none"
  /\ question = <<>>
  /\ at = "none"
  /\ state = EmptyState
  /\ result = <<>>
  /\ trace = <<>>
  /\ calls = NoCalls
  /\ chosen = NoneChosen
  /\ access_log = <<>>
  /\ IngestIdle
  /\ ConcIdle

\* -------------------------------------------------------------- the script
\* load_rag_system: the cached RAGSystem, or None when its constructor raises
load_rag_system(fails, disk) ==
  IF fails
  THEN [rag_system |-> "None", retriever |-> NoRetriever]
  ELSE [rag_system |-> "RAGSystem", retriever |-> load_vectorstore(disk)]

welcome_message == [role |-> "assistant", content |-> WelcomeContent]

\* variant: the credential is not checked
credential_unchecked(key) == TRUE

\* main()'s credential check: does the script go on past it
credential_ok(key) == key

\* one run of the script from main() down to st.chat_input
run_to_input(key, fails, disk, msgs, rs, ret) ==
  IF ~credential_ok(key)
  THEN [stopped |-> TRUE, banner |-> MissingKeyBanner, messages |-> msgs,
        rag_system |-> rs, retriever |-> ret]
  ELSE LET l == IF rs = "None" THEN load_rag_system(fails, disk)
                ELSE [rag_system |-> rs, retriever |-> ret]
       IN IF l.rag_system = "None"
          THEN [stopped |-> TRUE, banner |-> InitErrorBanner, messages |-> msgs,
                rag_system |-> l.rag_system, retriever |-> l.retriever]
          ELSE [stopped |-> FALSE, banner |-> <<>>,
                messages |-> IF Len(msgs) = 0 THEN <<welcome_message>> ELSE msgs,
                rag_system |-> l.rag_system, retriever |-> l.retriever]

UserTurns == Cardinality({i \in 1..Len(messages) : messages[i].role = "user"})

\* query() up to app.invoke: the short circuit, or a fresh Request State
QueryBegin(ret, q, who) ==
  /\ caller' = who
  /\ question' = q
  /\ trace' = <<>>
  /\ calls' = NoCalls
  /\ chosen' = NoneChosen
  /\ access_log' = <<>>
  /\ IF short_circuit(ret)
     THEN /\ outcome' = "returned"
          /\ result' = VectorStoreNotLoaded
          /\ at' = "none"
          /\ state' = EmptyState
     ELSE /\ outcome' = "running"
          /\ result' = <<>>
          /\ at' = "START"
          /\ state' = initial_state(q)

NoCallInProgress ==
  \/ outcome = "idle"
  \/ outcome \in {"returned", "raised"} /\ caller = "direct"

\* first run of the script (no chat input yet)
RunScript ==
  /\ app_pc = "start"
  /\ LET r == run_to_input(OPENAI_API_KEY, init_fails, vectorstore_dir,
                           messages, rag_system, retriever)
     IN /\ app_pc' = IF r.stopped THEN "stopped" ELSE "waiting"
        /\ error_banner' = r.banner
        /\ messages' = r.messages
        /\ rag_system' = r.rag_system
        /\ retriever' = r.retriever
  /\ UNCHANGED <<concVars, ingestVars, envVars, outcome, caller, question, at, state, result, trace,
                 calls, chosen, access_log>>

\* a rerun of the script with a submitted prompt, up to the call of query
ChatInput(prompt) ==
  /\ app_pc = "waiting"
  /\ NoCallInProgress
  /\ UserTurns < MaxTurns
  /\ LET r == run_to_input(OPENAI_API_KEY, init_fails, vectorstore_dir,
                           messages, rag_system, retriever)
     IN /\ error_banner' = r.banner
        /\ rag_system' = r.rag_system
        /\ retriever' = r.retriever
        /\ IF r.stopped
           THEN /\ app_pc' = "stopped"
                /\ messages' = r.messages
                /\ UNCHANGED <<outcome, caller, question, at, state, result, trace,
                               calls, chosen, access_log>>
           ELSE /\ app_pc' = "waiting"
                /\ messages' = Append(r.messages, [role |-> "user", content |-> prompt])
                /\ QueryBegin(r.retriever, prompt, "chat")
  /\ UNCHANGED <<concVars, ingestVars, envVars>>

\* variant: the answer is trimmed before it is stored
assistant_message_stripped(oc, res) ==
  [role |-> "assistant",
   content |-> IF oc = "returned" THEN strip(res)
               ELSE ErrorGeneratingPrefix \o res]

\* the history entry for what the query call gave: its return value, or the
\* error text built from the exception it raised
assistant_message(oc, res) ==
  [role |-> "assistant",
   content |-> IF oc = "returned" THEN res
               ELSE ErrorGeneratingPrefix \o res]

\* the rest of the chat turn: the answer (or the caught exception) is appended
ChatAppend ==
  /\ caller = "chat"
  /\ outcome \in {"returned", "raised"}
  /\ messages' = Append(messages, assistant_message(outcome, result))
  /\ outcome' = "idle"
  /\ caller' = "none"
  /\ UNCHANGED <<concVars, ingestVars, envVars, app_pc, error_banner, rag_system, retriever, question,
                 at, state, result, trace, calls, chosen, access_log>>

\* any other caller of RAGSystem.query, on the constructed pipeline
DirectQuery(q) ==
  /\ rag_system = "RAGSystem"
  /\ NoCallInProgress
  /\ QueryBegin(retriever, q, "direct")
  /\ UNCHANGED <<concVars, ingestVars, envVars, appVars>>

\* ---------------------------------------------------------------- the graph
\* effect of one node's return value on the call
NodeStep(node, out, kind) ==
  /\ trace' = Append(trace, node)
  /\ calls' = [calls EXCEPT ![node] = @ + out.invoked]
  /\ chosen' = [chosen EXCEPT ![node] = IF out.invoked = 1 THEN kind ELSE "none"]
  /\ access_log' = access_log \o [i \in 1..Len(out.acc) |->
                                    [node |-> node, op |-> out.acc[i].op,
                                     field |-> out.acc[i].field]]
  /\ IF out.exc.raised
     THEN /\ outcome' = query_except(out.exc).outcome
          /\ result' = query_except(out.exc).result
          /\ UNCHANGED <<at, state>>
     ELSE /\ at' = node
          /\ state' = out.state
          /\ UNCHANGED <<outcome, result>>
  /\ UNCHANGED <<concVars, ingestVars, envVars, appVars, caller, question>>

TranslateNode ==
  /\ outcome = "running"
  /\ next_node(at) = "translate"
  /\ \E o \in LLMOutcomes : NodeStep("translate", translate_node(state, o), o.kind)

RetrieveNode ==
  /\ outcome = "running"
  /\ next_node(at) = "retrieve"
  /\ \E o \in RetrieverOutcomes :
       NodeStep("retrieve", retrieve_node(state, retriever, o), o.kind)

GenerateNode ==
  /\ outcome = "running"
  /\ next_node(at) = "generate"
  /\ \E o \in LLMOutcomes : NodeStep("generate", generate_node(state, o), o.kind)

\* app.invoke returns at END and query returns result["answer"]
ReturnAnswer ==
  /\ outcome = "running"
  /\ next_node(at) = "END"
  /\ at' = "END"
  /\ outcome' = "returned"
  /\ result' = state.answer
  /\ UNCHANGED <<concVars, ingestVars, envVars, appVars, caller, question, state, trace,
                 calls, chosen, access_log>>

\* the graph execution itself raises, outside the nodes' own handlers
GraphRaise ==
  /\ outcome = "running"
  /\ outcome' = query_except(Exc(GraphError)).outcome
  /\ result' = query_except(Exc(GraphError)).result
  /\ UNCHANGED <<concVars, ingestVars, envVars, appVars, caller, question, at, state, trace, calls,
                 chosen, access_log>>

Next ==
  \/ RunScript
  \/ \E prompt \in ChatPrompts : ChatInput(prompt)
  \/ ChatAppend
  \/ \E q \in Questions : DirectQuery(q)
  \/ TranslateNode
  \/ RetrieveNode
  \/ GenerateNode
  \/ ReturnAnswer
  \/ GraphRaise

Spec == Init /\ [][Next]_vars

TypeOK ==
  /\ app_pc \in {"start", "stopped", "waiting"}
  /\ rag_system \in {"None", "RAGSystem"}
  /\ outcome \in {"idle", "running", "returned", "raised"}
  /\ caller \in {"none", "chat", "direct"}
  /\ at \in {"none", "START", "translate", "retrieve", "generate", "END"}

\* ---------------------------------------------------------------- ingestion
Suffix_txt == <<".", "t", "x", "t">>

Suffix_pdf == <<".", "p", "d", "f">>

Suffix_docx == <<".", "d", "o", "c", "x">>

supported_extensions == {Suffix_pdf, Suffix_txt, Suffix_docx}

\* entries the data folder may hold: a text file of one page, an upper-case
\* PDF whose second page is blank, a document its loader fails on, a file of
\* an unsupported type, and a PDF without pages
FileChoices ==
  { [name |-> "a.txt", suffix |-> Suffix_txt, fails |-> FALSE,
     pages |-> <<Chunk_T.page_content>>],
    [name |-> "B.PDF", suffix |-> <<".", "P", "D", "F">>, fails |-> FALSE,
     pages |-> <<Chunk_U.page_content, <<>>>>],
    [name |-> "c.docx", suffix |-> Suffix_docx, fails |-> TRUE,
     pages |-> <<>>],
    [name |-> "notes.md", suffix |-> <<".", "m", "d">>, fails |-> FALSE,
     pages |-> <<Chunk_T.page_content>>],
    [name |-> "d.pdf", suffix |-> Suffix_pdf, fails |-> FALSE,
     pages |-> <<>>] }

FolderChoices ==
  { [exists |-> FALSE, files |-> <<>>] } \cup
  { [exists |-> TRUE, files |-> f] :
      f \in UNION { [1..n -> FileChoices] : n \in 0..MaxFiles } }

\* what the embedding call of FAISS.from_documents may do
EmbedOutcomes == {"ok", "raise"}

\* the body of load_documents' loop for one folder entry: the documents it
\* adds (loader.load() with the metadata update), none when the entry is
\* skipped or its loader raises
load_file(file) ==
  IF lower(file.suffix) \in supported_extensions /\ ~file.fails
  THEN [i \in 1..Len(file.pages) |->
          [page_content |-> file.pages[i], filename |-> file.name]]
  ELSE <<>>

\* variant: an empty result is not rejected
no_documents_unchecked(documents) == FALSE

\* load_documents: if not documents
no_documents(documents) == documents = <<>>

\* split_documents: every text of the model is shorter than chunk_size, so a
\* page is one chunk, and a page without text gives none
split_documents(documents) ==
  SelectSeq(documents, LAMBDA d : d.page_content # <<>>)

IngestExit(code) ==
  /\ ing_pc' = "exited"
  /\ exit_code' = code

\* main() up to the call of load_documents
IngestMain ==
  /\ ing_pc = "main"
  /\ IF ~data_folder.exists \/ data_folder.files = <<>> \/ ~OPENAI_API_KEY
     THEN IngestExit(1)
     ELSE ing_pc' = "load" /\ UNCHANGED exit_code
  /\ UNCHANGED <<envVars, appVars, queryVars, concVars, data_folder, ing_next,
                 ing_documents, ing_chunks, saves>>

\* load_documents: one iteration of the loop over the folder
LoadFile ==
  /\ ing_pc = "load"
  /\ ing_next <= Len(data_folder.files)
  /\ ing_documents' = ing_documents \o load_file(data_folder.files[ing_next])
  /\ ing_next' = ing_next + 1
  /\ UNCHANGED <<envVars, appVars, queryVars, concVars, ing_pc, data_folder, ing_chunks,
                 exit_code, saves>>

\* load_documents after the loop: ValueError (caught in main, exit 1) or return
LoadDone ==
  /\ ing_pc = "load"
  /\ ing_next > Len(data_folder.files)
  /\ IF no_documents(ing_documents)
     THEN IngestExit(1)
     ELSE ing_pc' = "split" /\ UNCHANGED exit_code
  /\ UNCHANGED <<envVars, appVars, queryVars, concVars, data_folder, ing_next,
                 ing_documents, ing_chunks, saves>>

SplitDocuments ==
  /\ ing_pc = "split"
  /\ ing_chunks' = split_documents(ing_documents)
  /\ ing_pc' = "store"
  /\ UNCHANGED <<envVars, appVars, queryVars, concVars, data_folder, ing_next,
                 ing_documents, exit_code, saves>>

\* create_vector_store and the end of main: embed and save_local, or the
\* exception of from_documents (provider error, or no chunk to embed)
CreateVectorStore ==
  /\ ing_pc = "store"
  /\ \E o \in EmbedOutcomes :
       IF o = "raise" \/ ing_chunks = <<>>
       THEN IngestExit(1) /\ UNCHANGED <<vectorstore_dir, saves>>
       ELSE /\ vectorstore_dir' = [kind |-> "ok", index |-> ing_chunks]
            /\ saves' = saves + 1
            /\ IngestExit(0)
  /\ UNCHANGED <<OPENAI_API_KEY, init_fails, appVars, queryVars, concVars, data_folder,
                 ing_next, ing_documents, ing_chunks>>

InitIngest ==
  /\ OPENAI_API_KEY \in BOOLEAN
  /\ vectorstore_dir \in DiskChoices
  /\ init_fails = FALSE
  /\ app_pc = "start"
  /\ error_banner = <<>>
  /\ messages = <<>>
  /\ rag_system = "None"
  /\ retriever = NoRetriever
  /\ outcome = "idle"
  /\ caller = "none"
  /\ question = <<>>
  /\ at = "none"
  /\ state = EmptyState
  /\ result = <<>>
  /\ trace = <<>>
  /\ calls = NoCalls
  /\ chosen = NoneChosen
  /\ access_log = <<>>
  /\ ing_pc = "main"
  /\ data_folder \in FolderChoices
  /\ ing_next = 1
  /\ ing_documents = <<>>
  /\ ing_chunks = <<>>
  /\ exit_code = 0
  /\ saves = 0
  /\ ConcIdle

NextIngest ==
  \/ IngestMain
  \/ LoadFile
  \/ LoadDone
  \/ SplitDocuments
  \/ CreateVectorStore

SpecIngest == InitIngest /\ [][NextIngest]_vars

\* ------------------------------------------------------ concurrent callers
\* questions the concurrent callers pass
ConcQuestions == {Q_ania, Q_who}

\* variant: the Request State is kept in one place on the pipeline object
state_slot_shared(c) == 1

\* the dict a call works on: initial_state is a local of that call of query
state_slot(c) == c

\* query() of thread c up to app.invoke
ConcBegin(c, q) ==
  /\ c_call[c].outcome \in {"idle", "returned", "raised"}
  /\ IF short_circuit(retriever)
     THEN /\ c_call' = [c_call EXCEPT ![c] =
                          [outcome |-> "returned", question |-> q, at |-> "none",
                           result |-> VectorStoreNotLoaded, picks |-> <<>>]]
          /\ UNCHANGED c_state
     ELSE /\ c_call' = [c_call EXCEPT ![c] =
                          [outcome |-> "running", question |-> q, at |-> "START",
                           result |-> <<>>, picks |-> <<>>]]
          /\ c_state' = [c_state EXCEPT ![state_slot(c)] = initial_state(q)]
  /\ UNCHANGED <<envVars, appVars, queryVars, ingestVars>>

\* effect of one node's return value on thread c's call
ConcNodeStep(c, node, out, o) ==
  /\ IF out.exc.raised
     THEN /\ c_call' = [c_call EXCEPT ![c].outcome = query_except(out.exc).outcome,
                                      ![c].result = query_except(out.exc).result,
                                      ![c].picks = Append(@, o)]
          /\ UNCHANGED c_state
     ELSE /\ c_call' = [c_call EXCEPT ![c].at = node, ![c].picks = Append(@, o)]
          /\ c_state' = [c_state EXCEPT ![state_slot(c)] = out.state]
  /\ UNCHANGED <<envVars, appVars, queryVars, ingestVars>>

ConcTranslate(c) ==
  /\ c_call[c].outcome = "running"
  /\ next_node(c_call[c].at) = "translate"
  /\ \E o \in LLMOutcomes :
       ConcNodeStep(c, "translate", translate_node(c_state[state_slot(c)], o), o)

ConcRetrieve(c) ==
  /\ c_call[c].outcome = "running"
  /\ next_node(c_call[c].at) = "retrieve"
  /\ \E o \in RetrieverOutcomes :
       ConcNodeStep(c, "retrieve",
                    retrieve_node(c_state[state_slot(c)], retriever, o), o)

ConcGenerate(c) ==
  /\ c_call[c].outcome = "running"
  /\ next_node(c_call[c].at) = "generate"
  /\ \E o \in LLMOutcomes :
       ConcNodeStep(c, "generate", generate_node(c_state[state_slot(c)], o), o)

ConcReturn(c) ==
  /\ c_call[c].outcome = "running"
  /\ next_node(c_call[c].at) = "END"
  /\ c_call' = [c_call EXCEPT ![c].at = "END", ![c].outcome = "returned",
                              ![c].result = c_state[state_slot(c)].answer]
  /\ UNCHANGED <<envVars, appVars, queryVars, ingestVars, c_state>>

ConcGraphRaise(c) ==
  /\ c_call[c].outcome = "running"
  /\ c_call' = [c_call EXCEPT ![c].outcome = query_except(Exc(GraphError)).outcome,
                              ![c].result = query_except(Exc(GraphError)).result]
  /\ UNCHANGED <<envVars, appVars, queryVars, ingestVars, c_state>>

\* a constructed pipeline, called from outside the chat script
InitConc ==
  /\ OPENAI_API_KEY = TRUE
  /\ vectorstore_dir \in DiskChoices
  /\ init_fails = FALSE
  /\ app_pc = "start"
  /\ error_banner = <<>>
  /\ messages = <<>>
  /\ rag_system = "RAGSystem"
  /\ retriever = load_vectorstore(vectorstore_dir)
  /\ outcome = "idle"
  /\ caller = "none"
  /\ question = <<>>
  /\ at = "none"
  /\ state = EmptyState
  /\ result = <<>>
  /\ trace = <<>>
  /\ calls = NoCalls
  /\ chosen = NoneChosen
  /\ access_log = <<>>
  /\ IngestIdle
  /\ ConcIdle

NextConc ==
  \/ \E c \in Calls : \E q \in ConcQuestions : ConcBegin(c, q)
  \/ \E c \in Calls : ConcTranslate(c)
  \/ \E c \in Calls : ConcRetrieve(c)
  \/ \E c \in Calls : ConcGenerate(c)
  \/ \E c \in Calls : ConcReturn(c)
  \/ \E c \in Calls : ConcGraphRaise(c)

SpecConc == InitConc /\ [][NextConc]_vars

\* ----------------------------------------------------------------- claims
AllNodes == <<"translate", "retrieve", "generate">>

IsPrefix(p, q) == Len(p) <= Len(q) /\ SubSeq(q, 1, Len(p)) = p

Ran(node) == \E i \in 1..Len(trace) : trace[i] = node

\* C1: query never raises to its caller: whatever the translate, retrieve and
\* generate calls do and wherever the graph execution itself raises, a call
\* that has ended has returned a string, and a running call can always go on
\* to its next node or to its return.
C1_QueryNeverRaises ==
  /\ outcome # "raised"
  /\ outcome = "returned" => result \in Seq(STRING)
  /\ outcome = "running" =>
       ENABLED (TranslateNode \/ RetrieveNode \/ GenerateNode \/ ReturnAnswer)

\* a call in which the translate and the retrieve call raised and then the
\* graph execution raised has returned the top-level error string
C1_Witness ==
  /\ outcome = "returned"
  /\ chosen.translate = "raise"
  /\ chosen.retrieve = "raise"
  /\ result = ErrorProcessingPrefix \o GraphError

\* C2: with no retriever loaded at construction, every query call returns
\* the fixed instruction string at once: no node runs and no translate,
\* retrieve or generate provider call is made.
C2_NoIndexShortCircuit ==
  (rag_system = "RAGSystem" /\ ~retriever.loaded) =>
    /\ outcome \in {"idle", "returned"}
    /\ caller # "none" => outcome = "returned" /\ result = VectorStoreNotLoaded
    /\ at = "none"
    /\ trace = <<>>
    /\ calls = NoCalls
    /\ state = EmptyState

\* a non-empty question has been answered with the instruction string
C2_Witness ==
  /\ rag_system = "RAGSystem"
  /\ ~retriever.loaded
  /\ outcome = "returned"
  /\ question = Q_citizen
  /\ result = VectorStoreNotLoaded

\* the Request State's position on the path Created .. Answered
Stage ==
  CASE at = "START" -> "Created"
    [] at = "translate" -> "Translated"
    [] at = "retrieve" -> "Retrieved"
    [] at \in {"generate", "END"} -> "Answered"
    [] OTHER -> "None"

StagePath ==
  { <<"Created", "Translated">>, <<"Translated", "Retrieved">>,
    <<"Retrieved", "Answered">> }

\* C3: with the index loaded, the nodes a call runs are translate, retrieve,
\* generate in that order, each at most once and each with at most one
\* provider call; a call whose graph run reaches END has run each exactly
\* once, whichever provider calls failed; within a call the Request State
\* moves only along Created -> Translated -> Retrieved -> Answered.
C3_StrictStageOrder ==
  /\ [](retriever.loaded =>
          /\ IsPrefix(trace, AllNodes)
          /\ at \in {"generate", "END"} => trace = AllNodes
          /\ at = "retrieve" => trace = <<"translate", "retrieve">>
          /\ at = "translate" => trace = <<"translate">>
          /\ calls.translate <= 1
          /\ calls.retrieve = (IF Ran("retrieve") THEN 1 ELSE 0)
          /\ calls.generate = (IF Ran("generate") THEN 1 ELSE 0))
  /\ [][(outcome = "running" /\ Stage' # Stage) => <<Stage, Stage'>> \in StagePath]_vars

\* all three provider calls failed and the graph still reached END
C3_Witness ==
  /\ at = "END"
  /\ outcome = "returned"
  /\ chosen = [translate |-> "raise", retrieve |-> "raise", generate |-> "raise"]
  /\ trace = AllNodes

\* C4: when the translate call raises, translate_node completes with
\* translated_query equal to the question verbatim; retrieve is the next
\* step of the call, and a graph run that reaches END ran all three nodes.
C4_TranslateFailureFallsBack ==
  chosen.translate = "raise" =>
    /\ at \in {"translate", "retrieve", "generate", "END"}
    /\ state.translated_query = state.query
    /\ state.query = question
    /\ (outcome = "running" /\ at = "translate") => ENABLED RetrieveNode
    /\ at = "END" => trace = AllNodes

\* the translate call raised for a question with a marker, and the call
\* went on through retrieve and generate to its return
C4_Witness ==
  /\ chosen.translate = "raise"
  /\ question = Q_ania
  /\ state.translated_query = Q_ania
  /\ at = "END"
  /\ chosen.retrieve = "ok"
  /\ chosen.generate = "text"

\* C5: when the retriever call raises, retrieve_node completes with context
\* set to the error placeholder and source_docs empty; generate is the next
\* step of the call, and a graph run that reaches END has run generate.
C5_RetrieveFailureFallsBack ==
  chosen.retrieve = "raise" =>
    /\ at \in {"retrieve", "generate", "END"}
    /\ state.context = ErrorRetrieving
    /\ state.source_docs = <<>>
    /\ (outcome = "running" /\ at = "retrieve") => ENABLED GenerateNode
    /\ at = "END" => (Ran("generate") /\ calls.generate = 1 /\ result = state.answer)

\* retrieval failed and generate echoed a prompt holding the placeholder
C5_Witness ==
  /\ chosen.retrieve = "raise"
  /\ chosen.generate = "echo"
  /\ at = "END"
  /\ Contains(result, ErrorRetrieving)

\* the provider texts translate_node can have stripped and stored
TranslateResponses(q) ==
  {translation_prompt(q, English)} \cup
    {o.text : o \in {x \in LLMOutcomes : x.kind = "text"}}

\* C6 as stated: for "What are citizen rights?" translate_node copies the
\* question into translated_query and makes no translation call.
C6_CitizenNotTranslated ==
  (question = Q_citizen /\ Ran("translate")) =>
    /\ state.translated_query = Q_citizen
    /\ calls.translate = 0

\* C6 amended: "What are citizen rights?" holds the marker "ti" (inside
\* "citizen"), so translate_node makes exactly one translation call for it;
\* translated_query is the stripped response, or the question unchanged
\* when that call raises.
C6_CitizenIsTranslated ==
  (question = Q_citizen /\ Ran("translate")) =>
    /\ Contains(lower(Q_citizen), <<"t", "i">>)
    /\ calls.translate = 1
    /\ chosen.translate = "raise" => state.translated_query = Q_citizen
    /\ chosen.translate # "raise" =>
         \E r \in TranslateResponses(Q_citizen) : state.translated_query = strip(r)

\* the translation call was made for the question and answered with text
C6_Witness ==
  /\ question = Q_citizen
  /\ at = "translate"
  /\ calls.translate = 1
  /\ chosen.translate = "text"
  /\ state.translated_query = <<"o", "k">>

\* some marker token occurs in q at some position, letter case ignored
MarkerOccurs(q) ==
  \E m \in ilocano_indicators :
    \E p \in 0..Len(q) :
      /\ p + Len(m) <= Len(q)
      /\ \A j \in 1..Len(m) : LowerChar(q[p + j]) = m[j]

\* C7: there are 18 marker tokens; once translate_node has run, the
\* translation call was made exactly when some marker occurs somewhere in
\* the question, letter case ignored and word boundaries disregarded, and
\* not at all when none occurs.
C7_DetectorMatchesMarkers ==
  /\ Cardinality(ilocano_indicators) = 18
  /\ (outcome \in {"running", "returned"} /\ Ran("translate")) =>
       /\ MarkerOccurs(state.query) <=> calls.translate = 1
       /\ ~MarkerOccurs(state.query) <=> calls.translate = 0
       /\ calls.translate = 0 => state.translated_query = state.query

\* an upper-case marker triggered the translation call
C7_Witness ==
  /\ question = Q_Ania_caps
  /\ Ran("translate")
  /\ calls.translate = 1
  /\ at = "retrieve"

\* C8 as stated: query("") returns a non-empty string in every case.
C8_EmptyQuestionNonEmptyAnswer ==
  (question = Q_empty /\ caller = "direct" /\ outcome # "running") =>
    /\ outcome = "returned"
    /\ result # <<>>

\* C8 amended: query("") never raises and returns a string; the string is
\* empty only when the index is loaded, the graph reached END and the
\* generate call returned empty text (stored verbatim as the answer).
C8_EmptyQuestionAnswer ==
  (question = Q_empty /\ caller = "direct" /\ outcome # "running") =>
    /\ outcome = "returned"
    /\ result \in Seq(STRING)
    /\ result = <<>> =>
         /\ retriever.loaded
         /\ at = "END"
         /\ chosen.generate = "text"
         /\ state.answer = <<>>

\* query("") went through the graph with a failing generate call and came
\* back with the error string
C8_Witness ==
  /\ question = Q_empty
  /\ caller = "direct"
  /\ outcome = "returned"
  /\ at = "END"
  /\ chosen.generate = "raise"
  /\ result = ErrorGeneratingPrefix \o ProviderError

\* C9 as stated: a missing credential and a missing index directory both
\* stop the application before any chat turn.
C9_BothConfigErrorsFatal ==
  (~OPENAI_API_KEY \/ vectorstore_dir.kind = "missing") =>
    /\ app_pc \in {"start", "stopped"}
    /\ UserTurns = 0
    /\ caller # "chat"

\* C9 amended: only the missing credential is fatal: the script stops at
\* the credential check with no message in the history, no pipeline built
\* and no query call.  With the credential set and the index directory
\* missing, construction succeeds without a retriever, the chat goes on
\* and every query returns the fixed instruction string.
C9_OnlyCredentialFatal ==
  /\ ~OPENAI_API_KEY =>
       /\ app_pc \in {"start", "stopped"}
       /\ app_pc = "stopped" => error_banner = MissingKeyBanner
       /\ messages = <<>>
       /\ rag_system = "None"
       /\ outcome = "idle"
       /\ caller = "none"
  /\ (OPENAI_API_KEY /\ vectorstore_dir.kind = "missing" /\ ~init_fails
        /\ app_pc # "start") =>
       /\ app_pc = "waiting"
       /\ error_banner = <<>>
       /\ rag_system = "RAGSystem"
       /\ ~retriever.loaded
       /\ caller = "chat" =>
            /\ outcome = "returned"
            /\ result = VectorStoreNotLoaded
            /\ messages[Len(messages)].role = "user"

\* the index directory is missing and a chat turn has been answered
C9_Witness ==
  /\ OPENAI_API_KEY
  /\ vectorstore_dir.kind = "missing"
  /\ UserTurns = 1
  /\ Len(messages) = 3
  /\ messages[3] = [role |-> "assistant", content |-> VectorStoreNotLoaded]

\* C10: for query("ania") on an index holding one chunk, a successful
\* retrieve sets context to exactly the chunk's text, and when the generate
\* call echoes its prompt the answer, and the string query returns,
\* contain that text.
C10_ChunkRoundTrip ==
  (question = Q_ania /\ retriever.loaded /\ Len(retriever.index) = 1
     /\ chosen.retrieve = "ok") =>
    /\ state.context = retriever.index[1].page_content
    /\ state.source_docs = retriever.index
    /\ chosen.generate = "echo" =>
         /\ Contains(state.answer, retriever.index[1].page_content)
         /\ at = "END" => Contains(result, retriever.index[1].page_content)

\* both provider calls echoed and the answer came back holding the chunk
C10_Witness ==
  /\ question = Q_ania
  /\ retriever.index = <<Chunk_T>>
  /\ chosen = [translate |-> "echo", retrieve |-> "ok", generate |-> "echo"]
  /\ at = "END"
  /\ state.context = Chunk_T.page_content
  /\ result = rag_prompt(Chunk_T.page_content, Q_ania)

\* the history is the welcome message followed by user/assistant entries in
\* alternation, the last assistant entry missing while a chat turn's query runs
HistoryShape ==
  messages # <<>> =>
    /\ messages[1] = welcome_message
    /\ \A i \in 2..Len(messages) :
         messages[i].role = (IF i % 2 = 0 THEN "user" ELSE "assistant")
    /\ Len(messages) = 1 + 2 * UserTurns - (IF caller = "chat" THEN 1 ELSE 0)

NothingLoadable ==
  \A i \in 1..Len(data_folder.files) :
    LET f == data_folder.files[i]
    IN \/ \A e \in supported_extensions :
            \/ Len(e) # Len(f.suffix)
            \/ \E j \in 1..Len(e) : e[j] # LowerChar(f.suffix[j])
       \/ f.fails
       \/ Len(f.pages) = 0

\* C12: when the data folder is missing or no document is loaded from it,
\* the ingestion process never reaches the split or the embed-and-persist
\* step, save_local never runs, the vectorstore directory is left as it was,
\* and the process exits with status 1.
C12_IngestionFailsFast ==
  /\ []((~data_folder.exists \/ NothingLoadable) =>
          /\ ing_pc \in {"main", "load", "exited"}
          /\ saves = 0
          /\ ing_chunks = <<>>
          /\ ing_pc = "exited" => exit_code = 1)
  /\ [][(~data_folder.exists \/ NothingLoadable) =>
          vectorstore_dir' = vectorstore_dir]_vars

\* a folder of two entries, one failing to load and one without pages, was
\* iterated to its end and the process exited with status 1
C12_Witness ==
  /\ data_folder.exists
  /\ Len(data_folder.files) = 2
  /\ data_folder.files[1].fails
  /\ data_folder.files[2].name = "d.pdf"
  /\ OPENAI_API_KEY
  /\ ing_next = 3
  /\ ing_pc = "exited"
  /\ exit_code = 1

\* the stage that owns each derived field, in the order of assignment
OwnerOrder ==
  << [node |-> "translate", op |-> "write", field |-> "translated_query"],
     [node |-> "retrieve",  op |-> "write", field |-> "context"],
     [node |-> "retrieve",  op |-> "write", field |-> "source_docs"],
     [node |-> "generate",  op |-> "write", field |-> "answer"] >>

WritesLogged == SelectSeq(access_log, LAMBDA a : a.op = "write")

\* the step is node n of the running call completing
CompletesNode(n) == Len(trace') = Len(trace) + 1 /\ trace'[Len(trace')] = n

\* C13: during a call query keeps the value it was created with; the
\* assignments made to the state are translated_query by translate, context
\* and source_docs by retrieve and answer by generate, in that order and each
\* once (all of them once the graph reached END); a field's value changes
\* only in the step of the node that owns it; and every read of a derived
\* field comes after its owner's assignment (retrieve reads translated_query
\* after translate, generate reads context after retrieve).
C13_FieldOwnership ==
  /\ []((retriever.loaded /\ at # "none") =>
          /\ state.query = question
          /\ IsPrefix(WritesLogged, OwnerOrder)
          /\ at \in {"generate", "END"} => WritesLogged = OwnerOrder
          /\ \A i \in 1..Len(access_log) :
               (access_log[i].op = "read" /\ access_log[i].field # "query") =>
                 \E j \in 1..(i - 1) :
                   /\ access_log[j].op = "write"
                   /\ access_log[j].field = access_log[i].field
          /\ (\E i \in 1..Len(access_log) :
                access_log[i] = [node |-> "retrieve", op |-> "read",
                                 field |-> "translated_query"])
             <=> Ran("retrieve")
          /\ (\E i \in 1..Len(access_log) :
                access_log[i] = [node |-> "generate", op |-> "read",
                                 field |-> "context"])
             <=> Ran("generate"))
  /\ [][outcome = "running" =>
          /\ state'.query = state.query
          /\ state'.translated_query # state.translated_query => CompletesNode("translate")
          /\ state'.context # state.context => CompletesNode("retrieve")
          /\ state'.source_docs # state.source_docs => CompletesNode("retrieve")
          /\ state'.answer # state.answer => CompletesNode("generate")]_vars

\* a call whose generate call failed has reached END with every field
\* assigned by its owner
C13_Witness ==
  /\ at = "END"
  /\ question = Q_citizen
  /\ chosen = [translate |-> "text", retrieve |-> "ok", generate |-> "raise"]
  /\ WritesLogged = OwnerOrder
  /\ Len(access_log) = 9
  /\ state.answer = ErrorGeneratingPrefix \o ProviderError
  /\ state.context # <<>>

\* C14: when the generate call raises, generate_node completes with answer
\* set to "Error generating response: " followed by the exception's message;
\* the call does not raise, its result is never the top-level error string
\* for that exception, the return is its next step, and a run that reaches
\* END returns exactly that answer.
C14_GenerateFailureIsTheAnswer ==
  chosen.generate = "raise" =>
    /\ at \in {"generate", "END"}
    /\ state.answer = ErrorGeneratingPrefix \o ProviderError
    /\ outcome # "raised"
    /\ result # ErrorProcessingPrefix \o ProviderError
    /\ outcome = "running" => ENABLED ReturnAnswer
    /\ at = "END" => result = state.answer

\* a chat turn whose generate call failed got the error string as answer
C14_Witness ==
  /\ chosen.generate = "raise"
  /\ chosen.translate = "echo"
  /\ caller = "chat"
  /\ at = "END"
  /\ outcome = "returned"
  /\ result = ErrorGeneratingPrefix \o ProviderError

\* the Request State a call alone would have after the provider outcomes
\* in picks, one per node run, on question q
Replay(q, picks) ==
  LET s0 == initial_state(q)
      s1 == IF Len(picks) >= 1 THEN translate_node(s0, picks[1]).state ELSE s0
      s2 == IF Len(picks) >= 2 THEN retrieve_node(s1, retriever, picks[2]).state ELSE s1
  IN IF Len(picks) >= 3 THEN generate_node(s2, picks[3]).state ELSE s2

\* C15: with two threads inside query on one pipeline, under every
\* interleaving of their nodes, each call's Request State is what that call
\* alone would have computed from its own question and its own provider
\* outcomes, the answer it returns at END is the answer of that state, a
\* step of one call never changes the state of the other, and the retriever
\* and the persisted index are never written.
C15_CallsDoNotInterfere ==
  /\ [](\A c \in Calls :
          /\ (retriever.loaded /\ c_call[c].at # "none") =>
               /\ c_state[c] = Replay(c_call[c].question, c_call[c].picks)
               /\ c_state[c].query = c_call[c].question
               /\ c_call[c].at = "END" =>
                    c_call[c].result =
                      Replay(c_call[c].question, c_call[c].picks).answer
          /\ (~retriever.loaded /\ c_call[c].outcome # "idle") =>
               c_call[c].result = VectorStoreNotLoaded)
  /\ [][/\ \A c \in Calls : c_call'[c] = c_call[c] => c_state'[c] = c_state[c]
        /\ retriever' = retriever
        /\ vectorstore_dir' = vectorstore_dir]_vars

\* while the second call is between retrieve and generate on another
\* question, the first has returned an echoed prompt holding its own question
C15_Witness ==
  /\ c_call[1].question = Q_ania
  /\ c_call[1].at = "END"
  /\ c_call[1].picks[3].kind = "echo"
  /\ c_call[2].question = Q_who
  /\ c_call[2].outcome = "running"
  /\ c_call[2].at = "retrieve"
  /\ c_state[2].query = Q_who
  /\ Contains(c_call[1].result, Q_ania)
  /\ ~Contains(c_call[1].result, Q_who)

====
